---- MODULE Spec2Model ----
(***************************************************************************)
(* Economic core of the KAHEL games: the wagering server (players/games),  *)
(* the faucet game server (users with kahel_offchain), the miner pool      *)
(* server (submits / rewards_given) and the burn-and-claim server          *)
(* (burns / claims / kahel_in_game).  Each server is a separate process    *)
(* with its own database; the variable `server` says which one runs.       *)
(*                                                                         *)
(* A request handler is cut at its awaits: one action per database call    *)
(* (or external transfer) together with the synchronous code that follows  *)
(* it up to the next await.  Handlers of the better-sqlite3 servers are     *)
(* synchronous and are one action each, except around api.transact.        *)
(***************************************************************************)
EXTENDS Integers, Sequences, FiniteSets, Bags, TLC

\* ---------------------------------------------------------------- bounds
MaxReqs == 2
MaxGames == 2
MaxBet == 1
MaxTile == 0
InitCredits == 3
MaxDay == 1
MaxClaims == 3
MaxSubmits == 3
MaxBurns == 2
InitPoolCoins == 200
MaxLevel == 2
InitCoins == 2
MaxChain == 3
MaxRedeems == 6
MaxBobRedeems == 1
MaxTicks == 5
ClockStepMs == 500
WhaleFactor == 201
MaxCredits == 2
MaxDeposits == 2

\* ------------------------------------------------------ program constants
TotalTiles == 25
MaxBombs == 24
RATE == 100
MIN_BURN == 1000000
DAILY_LIMIT == 1000
MAX_PER_REQUEST == 200
POOL_GEMS == 1000
POOL_CENTS == 100
SecondMs == 1000

VARIABLES
    server,         \* which server this run is, and which group of its routes is called
    now,            \* Date.now(), in ms
    api,            \* is the on-chain api configured (FAUCET_PRIVKEY set)
    reqs,           \* bag of the requests suspended at an await, each with its locals
    resp,           \* the response most recently sent
    chain,          \* KAHEL cents the token contract has transferred, per account
    credits,        \* players.credits, in hundredths of a credit
    games,          \* games table, game_id = index
    users,          \* users table of the sqlite servers: account -> row
    claims,         \* claims table
    submits,        \* submits table
    burns,          \* burns table
    rewards_given,  \* rewards_given table: set of (account, day)
    awards,         \* history: (account, day) -> the pool shares credited, in order
    runs,           \* history: day -> distributeGemsForDay(day) calls, counted up to 2
    debited,        \* history: account -> what cash-out writes took off the balance
    pending_deposits \* pending_deposits table of the game server, in insertion order

envVars == <<server, now, api>>
sqlVars == <<users, claims, submits, burns, rewards_given, awards, runs, debited,
             pending_deposits>>
vars == <<server, now, api, reqs, resp, chain, credits, games,
          users, claims, submits, burns, rewards_given, awards, runs, debited,
          pending_deposits>>

\* alice has a players row; mallory is a caller without one
Wallets == {"alice"}
Callers == {"alice", "mallory"}
\* the accounts of the sqlite servers, and the UTC days of a run
Accounts == {"alice", "bob"}
DayMs == 24 * 60 * 60 * 1000
\* the run starts at midnight of day 1
Days == 1..(1 + MaxDay)
Today == now \div DayMs
NoResp == [op |-> "none", code |-> 0, error |-> "", key |-> 0]
Reply(op, code, error, key) == [op |-> op, code |-> code, error |-> error, key |-> key]

InFlight == BagToSet(reqs)
Room == BagCardinality(reqs) < MaxReqs
\* a request is answered at once
Answer(r) == resp' = r /\ UNCHANGED reqs
\* a new request suspends at its first await
Accept(locals) == reqs' = reqs (+) SetToBag({locals}) /\ UNCHANGED resp
\* a suspended request resumes and suspends again
Suspend(old, locals) == reqs' = (reqs (-) SetToBag({old})) (+) SetToBag({locals}) /\ UNCHANGED resp
\* a suspended request resumes and is answered
Finish(old, r) == reqs' = reqs (-) SetToBag({old}) /\ resp' = r

RECURSIVE GCD(_, _)
GCD(a, b) == IF b = 0 THEN a ELSE GCD(b, a % b)
Abs(n) == IF n < 0 THEN -n ELSE n

\* a JavaScript number that need not be whole, as a reduced fraction <<n, d>>
Rat(n, d) == LET g == GCD(Abs(n), d) IN <<n \div g, d \div g>>
RatAdd(x, y) == Rat(x[1] * y[2] + y[1] * x[2], x[2] * y[2])
RatLess(x, y) == x[1] * y[2] < y[1] * x[2]
\* Math.round(n / d) for n >= 0, d > 0
Round(n, d) == (2 * n + d) \div (2 * d)


\* the clock passes midnight
NextDay ==
    /\ server \in {"miner", "burn", "redeem"}
    /\ Today < 1 + MaxDay
    /\ now' = (Today + 1) * DayMs
    /\ UNCHANGED <<server, api, reqs, resp, chain, credits, games, sqlVars>>

\* ================================================================ wagering
\* the cells a request may name; the other cells of the board are never clicked
Tiles == 0..MaxTile
\* bet_amount / credits_to_use values a request may carry: missing, small
\* ones, and one above what the wallet starts with
Bets == (0..MaxBet) \cup {InitCredits + 1}
\* bombCount values a request may carry, as fractions <<n, d>>: missing, the
\* smallest legal one, one that is not whole, too many
BombCounts == {<<0, 1>>, <<1, 1>>, <<3, 2>>, <<MaxBombs + 1, 1>>}

\* Math.random layouts, up to renaming of the cells nobody clicks: the mines
\* among Tiles are any subset, the rest are taken from the top of the board
MineLayouts(bombs) ==
    { S \cup { TotalTiles - j : j \in 1..(bombs - Cardinality(S)) } :
        S \in { T \in SUBSET Tiles :
                  /\ Cardinality(T) <= bombs
                  /\ bombs - Cardinality(T) <= TotalTiles - (MaxTile + 1) } }

\* fairPayout after safeClicks reveals as a reduced fraction <<p, q>>
RECURSIVE FairPayout(_, _)
FairPayout(safeClicks, bombs) ==
    IF safeClicks = 0 THEN <<1, 1>>
    ELSE LET prev == FairPayout(safeClicks - 1, bombs)
             i == safeClicks - 1
             p == prev[1] * (TotalTiles - i)
             q == prev[2] * ((TotalTiles - bombs) - i)
             g == GCD(p, q)
         IN  <<p \div g, q \div g>>

\* (bombs, safeClicks) at which fairPayout * 0.965 is exactly half-way between
\* two hundredths and the double the loop computes lies just below it, so
\* toFixed(2) rounds down
TieBelow ==
    { <<1, 20>>, <<1, 24>>, <<5, 19>>, <<9, 14>>, <<9, 16>>, <<14, 5>>, <<14, 8>>,
      <<14, 9>>, <<15, 8>>, <<16, 8>>, <<16, 9>>, <<19, 3>>, <<19, 5>> }

\* Number((fairPayout * (1 - 0.035)).toFixed(2)), in hundredths
FinalMultiplierFloor(safeClicks, bombs) ==
    LET f == FairPayout(safeClicks, bombs) IN (f[1] * 193) \div (f[2] * 2)
FinalMultiplier(safeClicks, bombs) ==
    LET f == FairPayout(safeClicks, bombs)
        num == f[1] * 193
        den == f[2] * 2
        isTie == (2 * num) % (2 * den) = den
    IN  IF (f[1] \div f[2]) \div 1000000 >= 1000000
        THEN 965 * 1000000 * 100000     \* fairPayout capped at 1e12
        ELSE IF isTie /\ <<bombs, safeClicks>> \in TieBelow
             THEN num \div den
             ELSE (2 * num + den) \div (2 * den)

\* Math.max(finalMultiplier, 1.01)
Multiplier(safeClicks, bombs) ==
    LET m == FinalMultiplier(safeClicks, bombs) IN IF m > 101 THEN m ELSE 101

\* the row filter of the cash-out update: .match({ game_id, wallet, status: 'active' })
CashoutMatchNoStatus(game, wallet) == game.wallet = wallet
CashoutMatch(game, wallet) == game.wallet = wallet /\ game.status = "active"

\* the fields a safe click writes back
SafeClickUpdate(game, index) ==
    LET safeClicks == game.safe_clicks + 1
    IN  [revealed |-> game.revealed \cup {index},
         safe_clicks |-> safeClicks,
         multiplier |-> Multiplier(safeClicks, Cardinality(game.mine_positions)),
         status |-> "active"]

\* the fields a click on a mine writes back
MineClickUpdate(game, index) ==
    [revealed |-> game.revealed \cup {index}, status |-> "lost"]

\* supabase .update(fields): the named columns are overwritten, the others kept
RowUpdate(row, fields) ==
    [c \in DOMAIN row |-> IF c \in DOMAIN fields THEN fields[c] ELSE row[c]]

GameIds == 1..Len(games)
StartsInFlight == BagCardinality([r \in { q \in InFlight : q.op = "start" } |-> reqs[r]])

\* Number.isInteger(bombs) && bombs >= 1 && bombs <= 24
ValidBombCountNoUpper(bombCount) == bombCount[2] = 1 /\ bombCount[1] >= 1
ValidBombCount(bombCount) ==
    bombCount[2] = 1 /\ bombCount[1] >= 1 /\ bombCount[1] <= MaxBombs

\* if (player.credits < bet): not enough credits
NotEnoughCreditsNever(have, bet) == FALSE
NotEnoughCredits(have, bet) == have < bet * 100

\* POST /game/start up to the debit being issued
GameStart(wallet, bet, bombCount) ==
    /\ server = "game" /\ Room
    /\ Len(games) + StartsInFlight < MaxGames
    /\ UNCHANGED <<envVars, sqlVars, chain, credits, games>>
    /\ IF bet = 0 \/ bombCount[1] = 0
       THEN Answer(Reply("start", 400, "Missing parameters", wallet))
       ELSE IF ~ValidBombCount(bombCount)
       THEN Answer(Reply("start", 400, "Invalid bomb count", wallet))
       ELSE IF wallet \notin Wallets
       THEN Answer(Reply("start", 404, "Player not found", wallet))
       ELSE IF NotEnoughCredits(credits[wallet], bet)
       THEN Answer(Reply("start", 400, "Not enough credits", wallet))
       ELSE Accept([op |-> "start", pc |-> "debit", wallet |-> wallet, bet |-> bet,
                    bombs |-> bombCount[1], player |-> credits[wallet]])

\* the debit executes and the insert is issued
GameStartDebit(r) ==
    /\ server = "game" /\ r.op = "start" /\ r.pc = "debit"
    /\ credits' = [credits EXCEPT ![r.wallet] = r.player - r.bet * 100]
    /\ Suspend(r, [op |-> "start", pc |-> "insert", wallet |-> r.wallet,
                    bet |-> r.bet, bombs |-> r.bombs])
    /\ UNCHANGED <<envVars, sqlVars, chain, games>>

\* the games row is inserted, with the mines drawn after the debit
GameStartInsert(r) ==
    /\ server = "game" /\ r.op = "start" /\ r.pc = "insert"
    /\ \E mines \in MineLayouts(r.bombs) :
          games' = Append(games, [wallet |-> r.wallet, bet |-> r.bet,
                                  mine_positions |-> mines, revealed |-> {},
                                  safe_clicks |-> 0, multiplier |-> 100, status |-> "active"])
    /\ Finish(r, Reply("start", 200, "", Len(games) + 1))
    /\ UNCHANGED <<envVars, sqlVars, chain, credits>>

\* if (game.status !== 'active'): the game is over
NotActiveNever(game) == FALSE
NotActive(game) == game.status # "active"

\* if (revealed.has(index)): the tile was revealed before
AlreadyRevealedNever(game, index) == FALSE
AlreadyRevealed(game, index) == index \in game.revealed

\* if (game.wallet !== wallet): the caller does not own the game
NotYourGameNever(game, wallet) == FALSE
NotYourGame(game, wallet) == game.wallet # wallet

\* POST /game/click up to the update being issued
GameClick(gameId, index, wallet) ==
    /\ server = "game" /\ Room
    /\ UNCHANGED <<envVars, sqlVars, chain, credits, games>>
    /\ IF gameId \notin GameIds
       THEN Answer(Reply("click", 404, "Game not found", gameId))
       ELSE LET game == games[gameId] IN
            IF NotYourGame(game, wallet)
            THEN Answer(Reply("click", 403, "Not your game", gameId))
            ELSE IF NotActive(game)
            THEN Answer(Reply("click", 400, "Game is not active", gameId))
            ELSE IF AlreadyRevealed(game, index)
            THEN Answer(Reply("click", 400, "Tile already revealed", gameId))
            ELSE IF index \in game.mine_positions
            THEN Accept([op |-> "click", pc |-> "mine", gameId |-> gameId, wallet |-> wallet,
                         update |-> MineClickUpdate(game, index)])
            ELSE Accept([op |-> "click", pc |-> "safe", gameId |-> gameId, wallet |-> wallet,
                         update |-> SafeClickUpdate(game, index)])

\* the body of the answer to a click: result 'mine' comes with mine_positions,
\* result 'safe' with the multiplier only
ClickReply(r) ==
    IF r.pc = "mine"
    THEN [op |-> "click", code |-> 200, error |-> "mine", key |-> r.gameId,
          mine_positions |-> games[r.gameId].mine_positions]
    ELSE Reply("click", 200, "safe", r.gameId)

\* the update of the games row executes (no condition on the row's status)
GameClickUpdate(r) ==
    /\ server = "game" /\ r.op = "click"
    /\ games' = [games EXCEPT ![r.gameId] = RowUpdate(@, r.update)]
    /\ Finish(r, ClickReply(r))
    /\ UNCHANGED <<envVars, sqlVars, chain, credits>>

\* POST /game/cashout: the conditional update, then the read of the player is issued
GameCashout(gameId, wallet) ==
    /\ server = "game" /\ Room
    /\ UNCHANGED <<envVars, sqlVars, chain, credits>>
    /\ IF gameId \in GameIds /\ CashoutMatch(games[gameId], wallet)
       THEN /\ games' = [games EXCEPT ![gameId].status = "cashedOut"]
            /\ Accept([op |-> "cashout", pc |-> "read", gameId |-> gameId, wallet |-> wallet,
                        winnings |-> games[gameId].bet * games[gameId].multiplier])
       ELSE /\ UNCHANGED games
            /\ Answer(Reply("cashout", 400, "Game not active or not yours", <<gameId, wallet>>))

\* the player row is read
GameCashoutRead(r) ==
    /\ server = "game" /\ r.op = "cashout" /\ r.pc = "read"
    /\ Suspend(r, [op |-> "cashout", pc |-> "credit", gameId |-> r.gameId,
                    wallet |-> r.wallet, winnings |-> r.winnings,
                    player |-> credits[r.wallet]])
    /\ UNCHANGED <<envVars, sqlVars, chain, credits, games>>

\* the credit is written
GameCashoutCredit(r) ==
    /\ server = "game" /\ r.op = "cashout" /\ r.pc = "credit"
    /\ credits' = [credits EXCEPT ![r.wallet] = r.player + r.winnings]
    /\ Finish(r, Reply("cashout", 200, "", <<r.gameId, r.wallet>>))
    /\ UNCHANGED <<envVars, sqlVars, chain, games>>

\* the state every server starts from; each Init below sets its own tables
InitBlank ==
    /\ now = DayMs
    /\ reqs = EmptyBag
    /\ resp = NoResp
    /\ chain = [a \in Accounts |-> 0]
    /\ credits = [w \in Wallets |-> InitCredits * 100]
    /\ games = <<>>
    /\ claims = <<>>
    /\ submits = <<>>
    /\ burns = <<>>
    /\ rewards_given = {}
    /\ awards = [k \in Accounts \X Days |-> <<>>]
    /\ runs = [d \in Days |-> 0]
    /\ debited = [a \in Accounts |-> 0]
    /\ pending_deposits = <<>>

InitGame ==
    /\ server = "game"
    /\ api = TRUE
    /\ users = <<>>
    /\ InitBlank

\* ------------------------------------------------ /convert/withdraw (game server)
\* POST /convert/withdraw up to the debit being issued (credits_to_use whole credits)
Withdraw(wallet, credits_to_use) ==
    /\ server = "convert" /\ Room
    /\ \A a \in Accounts : chain[a] < MaxChain
    /\ UNCHANGED <<envVars, sqlVars, chain, credits, games>>
    /\ IF credits_to_use = 0
       THEN Answer(Reply("withdraw", 400, "Missing wallet or credits", wallet))
       ELSE IF wallet \notin Wallets
       THEN Answer(Reply("withdraw", 404, "Player not found", wallet))
       ELSE IF credits[wallet] < credits_to_use * 100
       THEN Answer(Reply("withdraw", 400, "Not enough credits", wallet))
       ELSE Accept([op |-> "withdraw", pc |-> "debit", wallet |-> wallet,
                    credits |-> credits_to_use, player |-> credits[wallet]])

\* the debit executes and api.transact is called
WithdrawDebit(r) ==
    /\ server = "convert" /\ r.op = "withdraw" /\ r.pc = "debit"
    /\ credits' = [credits EXCEPT ![r.wallet] = r.player - r.credits * 100]
    /\ Suspend(r, [r EXCEPT !.pc = "transact"])
    /\ UNCHANGED <<envVars, sqlVars, chain, games>>

\* the token contract transfers (credits / RATE).toFixed(2) KAHEL
WithdrawTransfer(r) ==
    /\ server = "convert" /\ r.op = "withdraw" /\ r.pc = "transact"
    /\ chain' = [chain EXCEPT ![r.wallet] = @ + (r.credits * 100) \div RATE]
    /\ Suspend(r, [r EXCEPT !.pc = "resolved"])
    /\ UNCHANGED <<envVars, sqlVars, credits, games>>

\* api.transact resolves and the response is sent
WithdrawResume(r) ==
    /\ server = "convert" /\ r.op = "withdraw" /\ r.pc = "resolved"
    /\ Finish(r, Reply("withdraw", 200, "", r.wallet))
    /\ UNCHANGED <<envVars, sqlVars, chain, credits, games>>

\* api.transact rejects: the refund is issued
WithdrawTransactFail(r) ==
    /\ server = "convert" /\ r.op = "withdraw" /\ r.pc = "transact"
    /\ Suspend(r, [r EXCEPT !.pc = "refund"])
    /\ UNCHANGED <<envVars, sqlVars, chain, credits, games>>

\* the refund writes back the credits read at the start
WithdrawRefund(r) ==
    /\ server = "convert" /\ r.op = "withdraw" /\ r.pc = "refund"
    /\ credits' = [credits EXCEPT ![r.wallet] = r.player]
    /\ Finish(r, Reply("withdraw", 500, "KAHEL transfer failed; credits refunded", r.wallet))
    /\ UNCHANGED <<envVars, sqlVars, chain, games>>

\* ------------------------------------------------ /convert/deposit (game server)
\* the request bodies tried: kahel_amount in whole KAHEL, txid "" for a missing one
DepositAmounts == {-1, 0, 1}
DepositTxids == {"", "t1", "t2"}

\* POST /convert/deposit up to the players row being read
Deposit(wallet, kahel_amount, txid) ==
    /\ server = "deposit" /\ Room
    /\ Len(pending_deposits) < MaxDeposits
    /\ UNCHANGED <<envVars, sqlVars, chain, credits, games>>
    /\ IF kahel_amount = 0 \/ txid = ""
       THEN Answer(Reply("deposit", 400, "Missing wallet, amount, or txid", wallet))
       ELSE IF wallet \notin Wallets
       THEN Answer(Reply("deposit", 404, "Player not found", wallet))
       ELSE IF kahel_amount <= 0
       THEN Answer(Reply("deposit", 400, "Invalid deposit amount", wallet))
       ELSE Accept([op |-> "deposit", pc |-> "credit", wallet |-> wallet,
                    kahel_amount |-> kahel_amount, txid |-> txid,
                    player |-> credits[wallet]])

\* the credits are written: the credits read plus kahel_amount * RATE
DepositCredit(r) ==
    /\ server = "deposit" /\ r.op = "deposit" /\ r.pc = "credit"
    /\ credits' = [credits EXCEPT ![r.wallet] = r.player + r.kahel_amount * RATE * 100]
    /\ Suspend(r, [r EXCEPT !.pc = "insert"])
    /\ UNCHANGED <<envVars, sqlVars, chain, games>>

\* the pending_deposits row is inserted and the response is sent
DepositInsert(r) ==
    /\ server = "deposit" /\ r.op = "deposit" /\ r.pc = "insert"
    /\ pending_deposits' = Append(pending_deposits,
           [wallet |-> r.wallet, txid |-> r.txid, kahel_amount |-> r.kahel_amount,
            credited |-> TRUE, verified |-> FALSE])
    /\ Finish(r, Reply("deposit", 200, "", r.wallet))
    /\ UNCHANGED <<envVars, chain, credits, games,
                   users, claims, submits, burns, rewards_given, awards, runs, debited>>

InitDeposit ==
    /\ server = "deposit"
    /\ api = TRUE
    /\ users = <<>>
    /\ InitBlank

NextDeposit ==
    \/ \E w \in Callers, k \in DepositAmounts, t \in DepositTxids : Deposit(w, k, t)
    \/ \E r \in InFlight : DepositCredit(r)
    \/ \E r \in InFlight : DepositInsert(r)

SpecDeposit == InitDeposit /\ [][NextDeposit]_vars

InitConvert ==
    /\ server = "convert"
    /\ api = TRUE
    /\ users = <<>>
    /\ InitBlank

NextConvert ==
    \/ \E w \in Callers, c \in Bets : Withdraw(w, c)
    \/ \E r \in InFlight : WithdrawDebit(r)
    \/ \E r \in InFlight : WithdrawTransfer(r)
    \/ \E r \in InFlight : WithdrawResume(r)
    \/ \E r \in InFlight : WithdrawTransactFail(r)
    \/ \E r \in InFlight : WithdrawRefund(r)

NextGame ==
    \/ \E w \in Callers, bet \in Bets, bombs \in BombCounts : GameStart(w, bet, bombs)
    \/ \E g \in 1..MaxGames, t \in Tiles, w \in Callers : GameClick(g, t, w)
    \/ \E g \in 1..MaxGames, w \in Callers : GameCashout(g, w)
    \/ \E r \in InFlight : GameStartDebit(r)
    \/ \E r \in InFlight : GameStartInsert(r)
    \/ \E r \in InFlight : GameClickUpdate(r)
    \/ \E r \in InFlight : GameCashoutRead(r)
    \/ \E r \in InFlight : GameCashoutCredit(r)

SpecGame == InitGame /\ [][NextGame]_vars

\* sequential execution: a request is sent only once the previous one is answered
NextGameSeq ==
    \/ reqs = EmptyBag /\ \E w \in Callers, bet \in Bets, bombs \in BombCounts :
                              GameStart(w, bet, bombs)
    \/ reqs = EmptyBag /\ \E g \in 1..MaxGames, t \in Tiles, w \in Callers : GameClick(g, t, w)
    \/ reqs = EmptyBag /\ \E g \in 1..MaxGames, w \in Callers : GameCashout(g, w)
    \/ \E r \in InFlight : GameStartDebit(r)
    \/ \E r \in InFlight : GameStartInsert(r)
    \/ \E r \in InFlight : GameClickUpdate(r)
    \/ \E r \in InFlight : GameCashoutRead(r)
    \/ \E r \in InFlight : GameCashoutCredit(r)
SpecGameSeq == InitGame /\ [][NextGameSeq]_vars

\* a game in the middle of sequential play: bombs mines on the last cells,
\* safeClicks safe cells revealed, cell 0 safe and not yet revealed
GameInPlay(bombs, safeClicks) ==
    [wallet |-> "alice", bet |-> 1,
     mine_positions |-> { TotalTiles - j : j \in 1..bombs },
     revealed |-> 1..safeClicks,
     safe_clicks |-> safeClicks,
     multiplier |-> IF safeClicks = 0 THEN 100 ELSE Multiplier(safeClicks, bombs),
     status |-> "active"]

\* clicks on one game, for every legal bomb count and every number of safe
\* cells revealed so far
InitMultiplier ==
    /\ server = "game"
    /\ api = TRUE
    /\ users = <<>>
    /\ now = DayMs
    /\ reqs = EmptyBag
    /\ resp = NoResp
    /\ chain = [a \in Accounts |-> 0]
    /\ credits = [w \in Wallets |-> (InitCredits - 1) * 100]
    /\ \E bombs \in 1..MaxBombs :
          \E safeClicks \in 0..(TotalTiles - bombs - 1) :
             games = <<GameInPlay(bombs, safeClicks)>>
    /\ claims = <<>>
    /\ submits = <<>>
    /\ burns = <<>>
    /\ rewards_given = {}
    /\ awards = [k \in Accounts \X Days |-> <<>>]
    /\ runs = [d \in Days |-> 0]
    /\ debited = [a \in Accounts |-> 0]
    /\ pending_deposits = <<>>

NextMultiplier ==
    \/ \E g \in 1..MaxGames, t \in Tiles, w \in Callers : GameClick(g, t, w)
    \/ \E r \in InFlight : GameClickUpdate(r)

SpecMultiplier == InitMultiplier /\ [][NextMultiplier]_vars

\* clicks on a safe cell and on a mine of a game in play
ClickTiles == {0, TotalTiles - 1}
NextClicks ==
    \/ \E g \in 1..MaxGames, t \in ClickTiles, w \in Callers : GameClick(g, t, w)
    \/ \E r \in InFlight : GameClickUpdate(r)

SpecClicks == InitMultiplier /\ [][NextClicks]_vars

\* ======================================================= faucet game server
\* (users with coins / gems / kahel_offchain, claims with amount and timestamp)
Null == "null"
FaucetBurnInputs == {0, MIN_BURN, MIN_BURN + MIN_BURN \div 2}
FaucetAmounts == {0, 1, MAX_PER_REQUEST + 1}

\* the row /login creates and the coins a session has accrued since
FaucetUser ==
    [coins |-> InitCoins * MIN_BURN, gems |-> 0, rate |-> 1, level |-> 0,
     last_active_ms |-> 0, active |-> 0, kahel_offchain |-> 0]

PendingClaimWithTxid(account, amount) ==
    [account |-> account, amount |-> amount, timestamp |-> now, txid |-> "tx"]
\* info: the claims row inserted before the transfer is awaited
PendingClaim(account, amount) ==
    [account |-> account, amount |-> amount, timestamp |-> now, txid |-> Null]

RECURSIVE SumAmounts(_, _, _)
\* getDailyTotal: SUM(amount) FROM claims WHERE account = ? AND timestamp >= ?
SumAmounts(rows, account, startMs) ==
    IF rows = <<>> THEN 0
    ELSE (IF Head(rows).account = account /\ Head(rows).timestamp >= startMs
          THEN Head(rows).amount ELSE 0) + SumAmounts(Tail(rows), account, startMs)

\* POST /upgrade
FaucetUpgrade(account) ==
    /\ server = "faucet"
    /\ UNCHANGED <<envVars, reqs, chain, credits, games, pending_deposits,
                   claims, submits, burns, rewards_given, awards, runs, debited>>
    /\ IF account \notin DOMAIN users
       THEN resp' = Reply("upgrade", 404, "not found", account) /\ UNCHANGED users
       ELSE LET user == users[account]
                cost == 5 + user.level
            IN  IF user.gems < cost
                THEN resp' = Reply("upgrade", 400, "insufficient_gems", account) /\ UNCHANGED users
                ELSE /\ users' = [users EXCEPT ![account] =
                            [user EXCEPT !.gems = @ - cost, !.level = @ + 1, !.rate = @ + 1]]
                     /\ resp' = Reply("upgrade", 200, "", account)

CoinsNeededAll(burnCoins) == burnCoins
\* coinsNeeded: the coins of the whole KAHEL units the burn earns
CoinsNeeded(burnCoins) == (burnCoins \div MIN_BURN) * MIN_BURN

\* POST /burn
FaucetBurn(account, coins_to_burn) ==
    /\ server = "faucet"
    /\ UNCHANGED <<envVars, reqs, chain, credits, games, pending_deposits,
                   claims, submits, burns, rewards_given, awards, runs, debited>>
    /\ IF coins_to_burn <= 0
       THEN resp' = Reply("burn", 400, "burn amount must be positive integer", account)
            /\ UNCHANGED users
       ELSE IF coins_to_burn < MIN_BURN
       THEN resp' = Reply("burn", 400, "minimum burn", account) /\ UNCHANGED users
       ELSE IF account \notin DOMAIN users
       THEN resp' = Reply("burn", 404, "not found", account) /\ UNCHANGED users
       ELSE LET user == users[account]
                kahelEarned == coins_to_burn \div MIN_BURN
                coinsNeeded == CoinsNeeded(coins_to_burn)
            IN  IF user.coins < coinsNeeded
                THEN resp' = Reply("burn", 400, "insufficient_coins", account) /\ UNCHANGED users
                ELSE /\ users' = [users EXCEPT ![account] =
                            [user EXCEPT !.coins = @ - coinsNeeded,
                                         !.kahel_offchain = @ + kahelEarned]]
                     /\ resp' = Reply("burn", 200, "", account)

\* POST /convert (in-game KAHEL -> gems)
FaucetConvert(account, kahel) ==
    /\ server = "faucet"
    /\ UNCHANGED <<envVars, reqs, chain, credits, games, pending_deposits,
                   claims, submits, burns, rewards_given, awards, runs, debited>>
    /\ IF kahel <= 0
       THEN resp' = Reply("convert", 400, "kahel must be positive integer", account)
            /\ UNCHANGED users
       ELSE IF account \notin DOMAIN users
       THEN resp' = Reply("convert", 404, "not found", account) /\ UNCHANGED users
       ELSE LET user == users[account] IN
            IF user.kahel_offchain < kahel
            THEN resp' = Reply("convert", 400, "insufficient_kahel", account) /\ UNCHANGED users
            ELSE /\ users' = [users EXCEPT ![account] =
                        [user EXCEPT !.kahel_offchain = @ - kahel, !.gems = @ + kahel]]
                 /\ resp' = Reply("convert", 200, "", account)

\* if (dailySum + amount > DAILY_LIMIT): the request exceeds the daily limit
OverLimitSumOnly(dailySum, amount) == dailySum > DAILY_LIMIT
OverLimit(dailySum, amount) == dailySum + amount > DAILY_LIMIT

\* POST /cashout up to api.transact being called: the checks on the row just
\* read, the daily limit, the insert of the pending claims row
FaucetCashout(account, amount) ==
    /\ server = "faucet" /\ Room /\ Len(claims) < MaxClaims
    /\ UNCHANGED <<envVars, chain, credits, games, pending_deposits,
                   users, submits, burns, rewards_given, awards, runs, debited>>
    /\ IF amount <= 0
       THEN Answer(Reply("cashout", 400, "amount must be positive integer", account))
            /\ UNCHANGED claims
       ELSE IF amount > MAX_PER_REQUEST
       THEN Answer(Reply("cashout", 400, "max per request", account)) /\ UNCHANGED claims
       ELSE IF account \notin DOMAIN users
       THEN Answer(Reply("cashout", 404, "not found", account)) /\ UNCHANGED claims
       ELSE IF users[account].kahel_offchain < amount
       THEN Answer(Reply("cashout", 400, "insufficient_offchain_kahel", account))
            /\ UNCHANGED claims
       ELSE IF OverLimit(SumAmounts(claims, account, Today * DayMs), amount)
       THEN Answer(Reply("cashout", 429, "Daily limit exceeded", account)) /\ UNCHANGED claims
       ELSE /\ claims' = Append(claims, PendingClaim(account, amount))
            /\ Accept([op |-> "cashout", pc |-> "transact", account |-> account,
                        amount |-> amount, user |-> users[account],
                        claimId |-> Len(claims) + 1])

\* the token contract transfers amount.00 KAHEL
FaucetTransfer(r) ==
    /\ server = "faucet" /\ r.op = "cashout" /\ r.pc = "transact"
    /\ chain' = [chain EXCEPT ![r.account] = @ + r.amount * 100]
    /\ Suspend(r, [r EXCEPT !.pc = "resolved"])
    /\ UNCHANGED <<envVars, sqlVars, credits, games>>

\* api.transact rejects: the catch block answers 500
FaucetTransactFail(r) ==
    /\ server = "faucet" /\ r.op = "cashout" /\ r.pc = "transact"
    /\ Finish(r, Reply("cashout", 500, "internal_error", r.account))
    /\ UNCHANGED <<envVars, sqlVars, chain, credits, games>>

\* the row the cash-out writes once the transfer went through: the row it
\* read before the transfer, less the amount
CashoutRow(current, read, amount) == [read EXCEPT !.kahel_offchain = @ - amount]

\* api.transact resolves: the claims row gets its txid, the user row is written
FaucetCashoutResume(r) ==
    /\ server = "faucet" /\ r.op = "cashout" /\ r.pc = "resolved"
    /\ claims' = [claims EXCEPT ![r.claimId].txid = "tx"]
    /\ users' = [users EXCEPT ![r.account] = CashoutRow(@, r.user, r.amount)]
    /\ debited' = [debited EXCEPT ![r.account] =
                      @ + users[r.account].kahel_offchain - users'[r.account].kahel_offchain]
    /\ Finish(r, Reply("cashout", 200, "", r.account))
    /\ UNCHANGED <<envVars, chain, credits, games, pending_deposits, submits, burns, rewards_given, awards, runs>>

InitFaucet ==
    /\ server = "faucet"
    /\ api = TRUE
    /\ users = [a \in {"alice"} |-> FaucetUser]
    /\ InitBlank

NextFaucet ==
    \/ \E a \in Accounts : FaucetUpgrade(a)
    \/ \E a \in Accounts, c \in FaucetBurnInputs : FaucetBurn(a, c)
    \/ \E a \in Accounts, k \in FaucetAmounts : FaucetConvert(a, k)
    \/ \E a \in Accounts, k \in FaucetAmounts : FaucetCashout(a, k)
    \/ \E r \in InFlight : FaucetTransfer(r)
    \/ \E r \in InFlight : FaucetTransactFail(r)
    \/ \E r \in InFlight : FaucetCashoutResume(r)

SpecFaucet == InitFaucet /\ [][NextFaucet]_vars

\* burns below the minimum, with a remainder, and of more than one unit
WideBurnInputs == {MIN_BURN \div 2, MIN_BURN + MIN_BURN \div 2, 2 * MIN_BURN + 1, 3 * MIN_BURN}

NextFaucetBurns ==
    \/ NextFaucet
    \/ \E a \in Accounts, c \in WideBurnInputs : FaucetBurn(a, c)

SpecFaucetBurns == InitFaucet /\ [][NextFaucetBurns]_vars

\* ------------------------------------------ sessions (faucet game server)
\* the account a request names; "" is a request without one
SessionInputs == Accounts \cup {""}

\* the row createUser inserts: the column defaults, last_active_ms NULL as 0
NewFaucetUser ==
    [coins |-> 0, gems |-> 0, rate |-> 1, level |-> 0,
     last_active_ms |-> 0, active |-> 0, kahel_offchain |-> 0]

\* the clock moves on by a fraction of a second
ClockTick ==
    /\ server \in {"session", "burn"}
    /\ now < DayMs + MaxTicks * ClockStepMs
    /\ now' = now + ClockStepMs
    /\ UNCHANGED <<server, api, reqs, resp, chain, credits, games, sqlVars>>

\* Math.floor((now - (last || now)) / 1000)
ElapsedSec(last) == (now - (IF last = 0 THEN now ELSE last)) \div SecondMs

\* POST /login
FaucetLogin(account) ==
    /\ server = "session"
    /\ UNCHANGED <<envVars, reqs, chain, credits, games, pending_deposits,
                   claims, submits, burns, rewards_given, awards, runs, debited>>
    /\ IF account = ""
       THEN resp' = Reply("login", 400, "account required", account) /\ UNCHANGED users
       ELSE LET user == IF account \in DOMAIN users THEN users[account] ELSE NewFaucetUser
                updated == [coins |-> user.coins, gems |-> user.gems, rate |-> user.rate,
                            level |-> user.level, last_active_ms |-> now, active |-> 1,
                            kahel_offchain |-> user.kahel_offchain]
            IN  /\ users' = [a \in DOMAIN users \cup {account} |->
                                IF a = account THEN updated ELSE users[a]]
                /\ resp' = Reply("login", 200, "", account)

\* /logout: accrue up to now if active
LogoutCoinsNoFlush(user) == user.coins
LogoutCoins(user) ==
    LET elapsedSec == ElapsedSec(user.last_active_ms)
    IN  IF user.active = 1 /\ elapsedSec > 0
        THEN user.coins + elapsedSec * user.rate ELSE user.coins

\* POST /logout
FaucetLogout(account) ==
    /\ server = "session"
    /\ UNCHANGED <<envVars, reqs, chain, credits, games, pending_deposits,
                   claims, submits, burns, rewards_given, awards, runs, debited>>
    /\ IF account = ""
       THEN resp' = Reply("logout", 400, "account required", account) /\ UNCHANGED users
       ELSE IF account \notin DOMAIN users
       THEN resp' = Reply("logout", 400, "unknown account", account) /\ UNCHANGED users
       ELSE LET user == users[account]
                coins == LogoutCoins(user)
            IN  /\ users' = [users EXCEPT ![account] =
                        [user EXCEPT !.coins = coins, !.last_active_ms = now, !.active = 0]]
                /\ resp' = Reply("logout", 200, "", account)

\* /ping for an account that is not active: the session starts
SessionStartKeepLast(user) == [user EXCEPT !.active = 1]
SessionStart(user) == [user EXCEPT !.last_active_ms = now, !.active = 1]

\* /ping for an active account: whole seconds since last_active_ms are paid,
\* and last_active_ms becomes now either way
PingAccrue(user) ==
    LET elapsedSec == ElapsedSec(user.last_active_ms)
    IN  IF elapsedSec > 0
        THEN [user EXCEPT !.coins = @ + elapsedSec * user.rate, !.last_active_ms = now]
        ELSE [user EXCEPT !.last_active_ms = now]

\* POST /ping
FaucetPing(account) ==
    /\ server = "session"
    /\ UNCHANGED <<envVars, reqs, chain, credits, games, pending_deposits,
                   claims, submits, burns, rewards_given, awards, runs, debited>>
    /\ IF account = ""
       THEN resp' = Reply("ping", 400, "account required", account) /\ UNCHANGED users
       ELSE IF account \notin DOMAIN users
       THEN resp' = Reply("ping", 400, "unknown account", account) /\ UNCHANGED users
       ELSE IF users[account].active = 0
       THEN /\ users' = [users EXCEPT ![account] = SessionStart(@)]
            /\ resp' = Reply("ping", 200, "started", account)
       ELSE /\ users' = [users EXCEPT ![account] = PingAccrue(@)]
            /\ resp' = Reply("ping", 200, "", account)

InitSession ==
    /\ server = "session"
    /\ api = TRUE
    /\ users = <<>>
    /\ InitBlank

NextSession ==
    \/ ClockTick
    \/ \E a \in SessionInputs : FaucetLogin(a)
    \/ \E a \in SessionInputs : FaucetLogout(a)
    \/ \E a \in SessionInputs : FaucetPing(a)

SpecSession == InitSession /\ [][NextSession]_vars

\* one session per account, begun by /login at the start of the run, then
\* only pinged
InitAccrual ==
    /\ server = "session"
    /\ api = TRUE
    /\ users = [a \in Accounts |-> [NewFaucetUser EXCEPT !.last_active_ms = DayMs, !.active = 1]]
    /\ InitBlank

NextAccrual ==
    \/ ClockTick
    \/ \E a \in SessionInputs : FaucetPing(a)

SpecAccrual == InitAccrual /\ [][NextAccrual]_vars

\* ========================================================= miner pool server
\* (users with coins / gems / miner_level, submits, rewards_given)
SubmitAmounts == {0, 100, 200}
GemAmounts == {0, 300}
\* a row ensureUser created, with the coins /take has added since
MinerUser == [coins |-> InitPoolCoins, gems |-> <<0, 1>>, miner_level |-> 1]

RECURSIVE SelectDay(_, _)
\* SELECT account, amount FROM submits WHERE day = ?
SelectDay(rows, day) ==
    IF rows = <<>> THEN <<>>
    ELSE (IF Head(rows).day = day THEN <<Head(rows)>> ELSE <<>>) \o SelectDay(Tail(rows), day)
RECURSIVE SumRows(_)
SumRows(rows) == IF rows = <<>> THEN 0 ELSE Head(rows).amount + SumRows(Tail(rows))
RECURSIVE SelectAccount(_, _)
SelectAccount(rows, account) ==
    IF rows = <<>> THEN <<>>
    ELSE (IF Head(rows).account = account THEN <<Head(rows)>> ELSE <<>>)
         \o SelectAccount(Tail(rows), account)

\* SELECT 1 FROM rewards_given WHERE account = ? AND day = ?
AlreadyGivenNever(given, account, day) == FALSE
AlreadyGiven(given, account, day) == <<account, day>> \in given

\* const share = (row.amount / total) * pool, not rounded
Share(amount, total) == Rat(amount * POOL_GEMS, total)

RECURSIVE DistributeRows(_, _, _, _)
\* the loop of distributeGemsForDay over the day's rows; st is the database.
\* An insert that hits the primary key of rewards_given throws and ends the loop.
DistributeRows(rows, total, day, st) ==
    IF rows = <<>> THEN st
    ELSE LET row == Head(rows)
             key == <<row.account, day>>
             share == Share(row.amount, total)
             credited == [st EXCEPT !.users[row.account].gems = RatAdd(@, share),
                                    !.awards[key] = Append(@, share)]
         IN  IF AlreadyGiven(st.rewards_given, row.account, day)
             THEN DistributeRows(Tail(rows), total, day, st)
             ELSE IF key \in st.rewards_given
             THEN credited
             ELSE DistributeRows(Tail(rows), total, day,
                                 [credited EXCEPT !.rewards_given = @ \cup {key}])

distributeGemsForDay(day, st) ==
    LET rows == SelectDay(submits, day)
        total == SumRows(rows)
    IN  IF rows = <<>> \/ total = 0 THEN st ELSE DistributeRows(rows, total, day, st)

\* POST /submit
MinerSubmit(account, amount) ==
    /\ server = "miner" /\ Len(submits) < MaxSubmits
    /\ UNCHANGED <<envVars, reqs, chain, credits, games, pending_deposits,
                   claims, burns, rewards_given, awards, runs, debited>>
    /\ IF amount <= 0
       THEN resp' = Reply("submit", 400, "amount must be positive integer", account)
            /\ UNCHANGED <<users, submits>>
       ELSE IF users[account].coins < amount
       THEN resp' = Reply("submit", 400, "not_enough_coins", account)
            /\ UNCHANGED <<users, submits>>
       ELSE /\ users' = [users EXCEPT ![account].coins = @ - amount]
            /\ submits' = Append(submits, [account |-> account, amount |-> amount, day |-> Today])
            /\ resp' = Reply("submit", 200, "", account)

\* SELECT day FROM submits WHERE account = ? ORDER BY day DESC LIMIT 1
LastSubmitDay(account) ==
    LET days == { submits[i].day : i \in { j \in DOMAIN submits : submits[j].account = account } }
    IN  IF days = {} THEN 0 ELSE CHOOSE d \in days : \A e \in days : e <= d

\* if (last && last.day < today): the last submission is from a previous day
LastDayOverOrToday(last) == last # 0
LastDayOver(last) == last # 0 /\ last < Today

\* GET /pool/:account, with the lazy distribution of the account's last day
MinerPool(account) ==
    /\ server = "miner"
    /\ LET last == LastSubmitDay(account)
           st == [users |-> users, rewards_given |-> rewards_given, awards |-> awards]
           after == IF LastDayOver(last) THEN distributeGemsForDay(last, st) ELSE st
       IN  /\ users' = after.users
           /\ rewards_given' = after.rewards_given
           /\ awards' = after.awards
           /\ runs' = IF LastDayOver(last) /\ runs[last] < 2
                      THEN [runs EXCEPT ![last] = @ + 1] ELSE runs
    /\ resp' = Reply("pool", 200, "", account)
    /\ UNCHANGED <<envVars, reqs, chain, credits, games, pending_deposits, claims, submits, burns, debited>>

\* POST /upgrade
MinerUpgrade(account) ==
    /\ server = "miner"
    /\ UNCHANGED <<envVars, reqs, chain, credits, games, pending_deposits,
                   claims, submits, burns, rewards_given, awards, runs, debited>>
    /\ LET user == users[account]
           cost == 5 + user.miner_level
       IN  IF RatLess(user.gems, <<cost, 1>>)
           THEN resp' = Reply("upgrade", 400, "not_enough_gems", account) /\ UNCHANGED users
           ELSE /\ user.miner_level < MaxLevel
                /\ users' = [users EXCEPT ![account] =
                       [user EXCEPT !.gems = RatAdd(@, <<-cost, 1>>), !.miner_level = @ + 1]]
                /\ resp' = Reply("upgrade", 200, "", account)

\* the gems left in the row once api.transact is called: the optimistic debit,
\* undone at once when no api is configured (exactly, leaving aside the
\* rounding of a double that is not whole)
Debit(have, amount, configured) == IF configured THEN RatAdd(have, <<-amount, 1>>) ELSE have

\* if (user.gems < gems_to_cashout): not enough gems
InsufficientGemsNever(gems, amount) == FALSE
InsufficientGems(gems, amount) == RatLess(gems, <<amount, 1>>)

\* POST /cashout (gems) up to api.transact being called
MinerCashout(account, gems_to_cashout) ==
    /\ server = "miner" /\ Room
    /\ UNCHANGED <<envVars, chain, credits, games, pending_deposits,
                   claims, submits, burns, rewards_given, awards, runs, debited>>
    /\ LET user == users[account] IN
       IF gems_to_cashout <= 0
       THEN Answer(Reply("cashout", 400, "invalid_gems_to_cashout", account)) /\ UNCHANGED users
       ELSE IF InsufficientGems(user.gems, gems_to_cashout)
       THEN Answer(Reply("cashout", 400, "not_enough_gems", account)) /\ UNCHANGED users
       ELSE /\ users' = [users EXCEPT ![account].gems = Debit(@, gems_to_cashout, api)]
            /\ IF ~api
               THEN Answer(Reply("cashout", 500, "onchain_unavailable", account))
               ELSE Accept([op |-> "cashout", pc |-> "transact", account |-> account,
                            amount |-> gems_to_cashout, before |-> user.gems])

\* the token contract transfers (gems / 1000).toFixed(2) KAHEL
MinerTransfer(r) ==
    /\ server = "miner" /\ r.op = "cashout" /\ r.pc = "transact"
    /\ chain' = [chain EXCEPT ![r.account] = @ + Round(r.amount, 10)]
    /\ Suspend(r, [r EXCEPT !.pc = "resolved"])
    /\ UNCHANGED <<envVars, sqlVars, credits, games>>

\* api.transact resolves and the response is sent
MinerCashoutResume(r) ==
    /\ server = "miner" /\ r.op = "cashout" /\ r.pc = "resolved"
    /\ Finish(r, Reply("cashout", 200, "", r.account))
    /\ UNCHANGED <<envVars, sqlVars, chain, credits, games>>

\* api.transact rejects: the catch block answers 500 and writes nothing
MinerTransactFail(r) ==
    /\ server = "miner" /\ r.op = "cashout" /\ r.pc = "transact"
    /\ Finish(r, Reply("cashout", 500, "internal_error", r.account))
    /\ UNCHANGED <<envVars, sqlVars, chain, credits, games>>

InitMiner ==
    /\ server = "miner"
    /\ api \in BOOLEAN
    /\ users = [a \in Accounts |-> MinerUser]
    /\ InitBlank

NextMiner ==
    \/ NextDay
    \/ \E a \in Accounts, n \in SubmitAmounts : MinerSubmit(a, n)
    \/ \E a \in Accounts : MinerPool(a)
    \/ \E a \in Accounts : MinerUpgrade(a)
    \/ \E a \in Accounts, n \in GemAmounts : MinerCashout(a, n)
    \/ \E r \in InFlight : MinerTransfer(r)
    \/ \E r \in InFlight : MinerCashoutResume(r)
    \/ \E r \in InFlight : MinerTransactFail(r)

SpecMiner == InitMiner /\ [][NextMiner]_vars

\* GET /pool/:account when the process dies inside distributeGemsForDay, after
\* the UPDATE of the k-th row of the day and before its INSERT: each statement
\* has committed on its own, the requests in flight are gone
MinerPoolCrash(account, k) ==
    /\ server = "miner"
    /\ LET last == LastSubmitDay(account)
           rows == SelectDay(submits, last)
           total == SumRows(rows)
           st == [users |-> users, rewards_given |-> rewards_given, awards |-> awards]
       IN  /\ last # 0 /\ last < Today
           /\ k \in 1..Len(rows)
           /\ total # 0
           /\ LET before == DistributeRows(SubSeq(rows, 1, k - 1), total, last, st)
                  row == rows[k]
                  key == <<row.account, last>>
                  share == Share(row.amount, total)
              IN  /\ ~AlreadyGiven(before.rewards_given, row.account, last)
                  /\ Len(before.awards[key]) < MaxCredits
                  /\ users' = [before.users EXCEPT ![row.account].gems = RatAdd(@, share)]
                  /\ awards' = [before.awards EXCEPT ![key] = Append(@, share)]
                  /\ rewards_given' = before.rewards_given
           /\ runs' = IF runs[last] < 2 THEN [runs EXCEPT ![last] = @ + 1] ELSE runs
    /\ reqs' = EmptyBag
    /\ UNCHANGED <<envVars, resp, chain, credits, games, pending_deposits, claims, submits, burns, debited>>

\* contributions and pool queries, with a process that may die and restart
NextMinerCrash ==
    \/ NextDay
    \/ \E a \in Accounts, n \in SubmitAmounts : MinerSubmit(a, n)
    \/ \E a \in Accounts : MinerPool(a)
    \/ \E a \in Accounts, k \in 1..MaxSubmits : MinerPoolCrash(a, k)

SpecMinerCrash == InitMiner /\ [][NextMinerCrash]_vars

\* ===================================================== burn-and-claim server
\* (users with coins / gems / kahel_in_game in cents, burns, claims with a day)
BurnAmounts == {0, MIN_BURN}
CentAmounts == {0, 50, 100}
BurnUser ==
    [coins |-> InitCoins * MIN_BURN, gems |-> 0, rate |-> 1, level |-> 0,
     last_tick |-> DayMs, kahel_in_game |-> 0, last_claim_day |-> 0]

\* accrueCoinsForUser(user) at time now
accrueCoinsForUserFromZero(user) ==
    IF now - user.last_tick < 1000 THEN [user EXCEPT !.last_tick = now]
    ELSE [user EXCEPT !.coins = @ + ((now - user.last_tick) \div 1000) * user.rate,
                      !.last_tick = now]
accrueCoinsForUser(user) ==
    IF user.last_tick <= 0 THEN [user EXCEPT !.last_tick = now]
    ELSE IF now - user.last_tick < 1000 THEN [user EXCEPT !.last_tick = now]
    ELSE [user EXCEPT !.coins = @ + ((now - user.last_tick) \div 1000) * user.rate,
                      !.last_tick = now]

\* sumBurnsByDay / sumBurnsByDayAndAccount
SumBurnsByDay(day) == SumRows(SelectDay(burns, day))
SumBurnsByDayAndAccount(day, account) == SumRows(SelectAccount(SelectDay(burns, day), account))

\* getClaimByAccountDay.get(account, day): is there a claims row for them
ExistingClaimNever(account, day) == FALSE
ExistingClaim(account, day) ==
    \E i \in DOMAIN claims : claims[i].account = account /\ claims[i].day = day

\* let shareCents = Math.round((userBurn / totalBurn) * 100), at most 100
ShareCents(userBurn, totalBurn) ==
    LET r == Rat(userBurn, totalBurn)
        c == Round(r[1] * POOL_CENTS, r[2])
    IN  IF c > POOL_CENTS THEN POOL_CENTS ELSE c

\* POST /heartbeat
BurnHeartbeat(account) ==
    /\ server = "burn"
    /\ users' = [users EXCEPT ![account] = accrueCoinsForUser(@)]
    /\ resp' = Reply("heartbeat", 200, "", account)
    /\ UNCHANGED <<envVars, reqs, chain, credits, games, pending_deposits,
                   claims, submits, burns, rewards_given, awards, runs, debited>>

\* the stored row after a request returns before updateUserCols.run: the
\* accrual was made on the object getUser returned and is dropped
RowAfterReturnSaved(stored, accrued) == accrued
RowAfterReturn(stored, accrued) == stored

\* POST /upgrade
BurnUpgrade(account) ==
    /\ server = "burn"
    /\ UNCHANGED <<envVars, reqs, chain, credits, games, pending_deposits,
                   claims, submits, burns, rewards_given, awards, runs, debited>>
    /\ LET user == accrueCoinsForUser(users[account])
           cost == 5 + user.level
       IN  IF user.gems < cost
           THEN /\ resp' = Reply("upgrade", 400, "not_enough_gems", account)
                /\ users' = [users EXCEPT ![account] = RowAfterReturn(@, user)]
           ELSE /\ users' = [users EXCEPT ![account] =
                       [user EXCEPT !.gems = @ - cost, !.level = @ + 1, !.rate = @ + 1]]
                /\ resp' = Reply("upgrade", 200, "", account)

\* POST /burn
BurnBurn(account, amount) ==
    /\ server = "burn" /\ Len(burns) < MaxBurns
    /\ UNCHANGED <<envVars, reqs, chain, credits, games, pending_deposits,
                   claims, submits, rewards_given, awards, runs, debited>>
    /\ LET user == accrueCoinsForUser(users[account]) IN
       IF amount <= 0
       THEN resp' = Reply("burn", 400, "amount must be positive integer", account)
            /\ UNCHANGED <<users, burns>>
       ELSE IF amount < MIN_BURN
       THEN resp' = Reply("burn", 400, "min_burn", account) /\ UNCHANGED <<users, burns>>
       ELSE IF user.coins < amount
       THEN resp' = Reply("burn", 400, "not_enough_coins", account) /\ UNCHANGED <<users, burns>>
       ELSE /\ burns' = Append(burns, [account |-> account, amount |-> amount, day |-> Today])
            /\ users' = [users EXCEPT ![account] = [user EXCEPT !.coins = @ - amount]]
            /\ resp' = Reply("burn", 200, "", account)

\* POST /claim
BurnClaim(account) ==
    /\ server = "burn" /\ Len(claims) < MaxClaims
    /\ UNCHANGED <<envVars, reqs, chain, credits, games, pending_deposits,
                   submits, burns, rewards_given, runs, debited>>
    /\ LET user == accrueCoinsForUser(users[account])
           totalBurn == SumBurnsByDay(Today)
           userBurn == SumBurnsByDayAndAccount(Today, account)
           shareCents == ShareCents(userBurn, totalBurn)
       IN  IF ExistingClaim(account, Today)
           THEN resp' = Reply("claim", 400, "already_claimed_today", account)
                /\ users' = [users EXCEPT ![account] = RowAfterReturn(@, user)]
                /\ UNCHANGED <<claims, awards>>
           ELSE IF totalBurn <= 0
           THEN resp' = Reply("claim", 400, "no_burns_today", account)
                /\ users' = [users EXCEPT ![account] = RowAfterReturn(@, user)]
                /\ UNCHANGED <<claims, awards>>
           ELSE IF userBurn <= 0
           THEN resp' = Reply("claim", 400, "no_personal_burns", account)
                /\ users' = [users EXCEPT ![account] = RowAfterReturn(@, user)]
                /\ UNCHANGED <<claims, awards>>
           ELSE IF shareCents <= 0
           THEN resp' = Reply("claim", 400, "share_too_small", account)
                /\ users' = [users EXCEPT ![account] = RowAfterReturn(@, user)]
                /\ UNCHANGED <<claims, awards>>
           ELSE /\ users' = [users EXCEPT ![account] =
                       [user EXCEPT !.kahel_in_game = @ + shareCents]]
                /\ claims' = Append(claims, [account |-> account, day |-> Today,
                                             kahel_cents |-> shareCents, txid |-> Null])
                /\ awards' = [awards EXCEPT ![<<account, Today>>] = Append(@, shareCents)]
                /\ resp' = Reply("claim", 200, "", account)

\* POST /convert (in-game KAHEL cents -> whole gems)
BurnConvert(account, kahelCents) ==
    /\ server = "burn"
    /\ UNCHANGED <<envVars, reqs, chain, credits, games, pending_deposits,
                   claims, submits, burns, rewards_given, awards, runs, debited>>
    /\ LET user == accrueCoinsForUser(users[account])
           gemsToAdd == kahelCents \div 100
       IN  IF kahelCents <= 0
           THEN resp' = Reply("convert", 400, "invalid_amount", account) /\ UNCHANGED users
           ELSE IF user.kahel_in_game < kahelCents
           THEN resp' = Reply("convert", 400, "not_enough_in_game_kahel", account)
                /\ UNCHANGED users
           ELSE IF gemsToAdd <= 0
           THEN resp' = Reply("convert", 400, "amount_too_small_to_convert", account)
                /\ UNCHANGED users
           ELSE /\ users' = [users EXCEPT ![account] =
                       [user EXCEPT !.kahel_in_game = @ - gemsToAdd * 100,
                                    !.gems = @ + gemsToAdd]]
                /\ resp' = Reply("convert", 200, "", account)

\* the cents left in the row once api.transact is called: the optimistic debit,
\* undone at once when no api is configured
DebitCents(have, amount, configured) == IF configured THEN have - amount ELSE have

\* POST /cashout (kahel_in_game) up to api.transact being called
BurnCashout(account, kahelCents) ==
    /\ server = "burn" /\ Room
    /\ UNCHANGED <<envVars, chain, credits, games, pending_deposits,
                   claims, submits, burns, rewards_given, awards, runs, debited>>
    /\ LET user == accrueCoinsForUser(users[account]) IN
       IF kahelCents <= 0
       THEN Answer(Reply("cashout", 400, "invalid_amount", account)) /\ UNCHANGED users
       ELSE IF user.kahel_in_game < kahelCents
       THEN Answer(Reply("cashout", 400, "not_enough_in_game_kahel", account))
            /\ UNCHANGED users
       ELSE /\ users' = [users EXCEPT ![account] =
                   [user EXCEPT !.kahel_in_game = DebitCents(@, kahelCents, api)]]
            /\ IF ~api
               THEN Answer(Reply("cashout", 500, "onchain_unavailable", account))
               ELSE Accept([op |-> "cashout", pc |-> "transact", account |-> account,
                            amount |-> kahelCents, before |-> users[account].kahel_in_game])

\* the token contract transfers (kahelCents / 100).toFixed(2) KAHEL
BurnTransfer(r) ==
    /\ server = "burn" /\ r.op = "cashout" /\ r.pc = "transact"
    /\ chain' = [chain EXCEPT ![r.account] = @ + r.amount]
    /\ Suspend(r, [r EXCEPT !.pc = "resolved"])
    /\ UNCHANGED <<envVars, sqlVars, credits, games>>

\* api.transact resolves: the claims row of the cash-out is inserted
BurnCashoutResume(r) ==
    /\ server = "burn" /\ r.op = "cashout" /\ r.pc = "resolved"
    /\ claims' = Append(claims, [account |-> r.account, day |-> Today,
                                 kahel_cents |-> r.amount, txid |-> "tx"])
    /\ Finish(r, Reply("cashout", 200, "", r.account))
    /\ UNCHANGED <<envVars, chain, credits, games, pending_deposits,
                   users, submits, burns, rewards_given, awards, runs, debited>>

\* api.transact rejects: the catch block answers 500 and writes nothing
BurnTransactFail(r) ==
    /\ server = "burn" /\ r.op = "cashout" /\ r.pc = "transact"
    /\ Finish(r, Reply("cashout", 500, "internal_error", r.account))
    /\ UNCHANGED <<envVars, sqlVars, chain, credits, games>>

InitBurn ==
    /\ server = "burn"
    /\ api \in BOOLEAN
    /\ users = [a \in Accounts |-> BurnUser]
    /\ InitBlank

NextBurn ==
    \/ NextDay
    \/ \E a \in Accounts : BurnHeartbeat(a)
    \/ \E a \in Accounts : BurnUpgrade(a)
    \/ \E a \in Accounts, n \in BurnAmounts : BurnBurn(a, n)
    \/ \E a \in Accounts : BurnClaim(a)
    \/ \E a \in Accounts, c \in CentAmounts : BurnConvert(a, c)
    \/ \E a \in Accounts, c \in CentAmounts : BurnCashout(a, c)
    \/ \E r \in InFlight : BurnTransfer(r)
    \/ \E r \in InFlight : BurnCashoutResume(r)
    \/ \E r \in InFlight : BurnTransactFail(r)

SpecBurn == InitBurn /\ [][NextBurn]_vars

\* a users row holding the column defaults: last_tick is unset
DefaultBurnUser ==
    [coins |-> 0, gems |-> 0, rate |-> 1, level |-> 0,
     last_tick |-> 0, kahel_in_game |-> 0, last_claim_day |-> 0]

\* heartbeats at any cadence, for rows that have and rows that have not been
\* ticked before
InitTick ==
    /\ server = "burn"
    /\ api = TRUE
    /\ users \in [Accounts -> {DefaultBurnUser, BurnUser}]
    /\ InitBlank

NextTick ==
    \/ ClockTick
    \/ \E a \in Accounts : BurnHeartbeat(a)

SpecTick == InitTick /\ [][NextTick]_vars

\* burns of very unequal size: the least allowed one, and one so large that
\* the least one is under half a percent of the day
UnequalBurns == {MIN_BURN, WhaleFactor * MIN_BURN}

\* accounts that have accrued enough coins for the large burn
InitUnequal ==
    /\ server = "burn"
    /\ api = TRUE
    /\ users = [a \in Accounts |-> [BurnUser EXCEPT !.coins = WhaleFactor * MIN_BURN]]
    /\ InitBlank

NextUnequal ==
    \/ NextDay
    \/ \E a \in Accounts, n \in UnequalBurns : BurnBurn(a, n)
    \/ \E a \in Accounts : BurnClaim(a)

SpecUnequal == InitUnequal /\ [][NextUnequal]_vars

\* ============================================================ redeem faucet
\* (claims with amount and timestamp; no users table)
RedeemAmounts == {0, MAX_PER_REQUEST, MAX_PER_REQUEST + 1}

\* startOfDayMs(): midnight UTC of the current day
startOfDayMs == Today * DayMs

\* POST /redeem up to api.transact being called
Redeem(account, amount) ==
    /\ server = "redeem" /\ Room /\ Len(claims) < MaxRedeems
    /\ account = "bob" => Len(SelectAccount(claims, "bob")) < MaxBobRedeems
    /\ UNCHANGED <<envVars, chain, credits, games, pending_deposits,
                   users, submits, burns, rewards_given, awards, runs, debited>>
    /\ IF amount <= 0
       THEN Answer(Reply("redeem", 400, "amount must be positive integer", account))
            /\ UNCHANGED claims
       ELSE IF amount > MAX_PER_REQUEST
       THEN Answer(Reply("redeem", 400, "max per request", account)) /\ UNCHANGED claims
       ELSE IF OverLimit(SumAmounts(claims, account, startOfDayMs), amount)
       THEN Answer(Reply("redeem", 429, "Daily limit exceeded", account)) /\ UNCHANGED claims
       ELSE /\ claims' = Append(claims, PendingClaim(account, amount))
            /\ Accept([op |-> "redeem", pc |-> "transact", account |-> account,
                        amount |-> amount, claimId |-> Len(claims) + 1])

\* the token contract transfers amount.00 KAHEL
RedeemTransfer(r) ==
    /\ server = "redeem" /\ r.op = "redeem" /\ r.pc = "transact"
    /\ chain' = [chain EXCEPT ![r.account] = @ + r.amount * 100]
    /\ Suspend(r, [r EXCEPT !.pc = "resolved"])
    /\ UNCHANGED <<envVars, sqlVars, credits, games>>

\* api.transact rejects: the catch block answers 500, the pending row stays
RedeemTransactFail(r) ==
    /\ server = "redeem" /\ r.op = "redeem" /\ r.pc = "transact"
    /\ Finish(r, Reply("redeem", 500, "internal_error", r.account))
    /\ UNCHANGED <<envVars, sqlVars, chain, credits, games>>

\* api.transact resolves: the claims row gets its txid
RedeemResume(r) ==
    /\ server = "redeem" /\ r.op = "redeem" /\ r.pc = "resolved"
    /\ claims' = [claims EXCEPT ![r.claimId].txid = "tx"]
    /\ Finish(r, Reply("redeem", 200, "", r.account))
    /\ UNCHANGED <<envVars, chain, credits, games, pending_deposits,
                   users, submits, burns, rewards_given, awards, runs, debited>>

InitRedeem ==
    /\ server = "redeem"
    /\ api = TRUE
    /\ users = <<>>
    /\ InitBlank

NextRedeem ==
    \/ NextDay
    \/ \E a \in Accounts, n \in RedeemAmounts : Redeem(a, n)
    \/ \E r \in InFlight : RedeemTransfer(r)
    \/ \E r \in InFlight : RedeemTransactFail(r)
    \/ \E r \in InFlight : RedeemResume(r)

SpecRedeem == InitRedeem /\ [][NextRedeem]_vars

\* the two servers whose claims rows are inserted before the transfer
NextClaims == NextFaucet \/ NextRedeem

SpecClaims == (InitFaucet \/ InitRedeem) /\ [][NextClaims]_vars

SpecConvert == InitConvert /\ [][NextConvert]_vars

\* ============================================================== any server
InitAll == InitGame \/ InitConvert \/ InitFaucet \/ InitMiner \/ InitBurn
NextAll == NextGame \/ NextConvert \/ NextFaucet \/ NextMiner \/ NextBurn
SpecAll == InitAll /\ [][NextAll]_vars

\* ------------------------------------------------------- wagering: claims
Terminal == {"lost", "cashedOut"}
ClickInFlight(g) == \E r \in InFlight : r.op = "click" /\ r.gameId = g
\* the cash-out requests on game g that passed the conditional update
CashoutWinners(g) ==
    BagCardinality([r \in { q \in InFlight : q.op = "cashout" /\ q.gameId = g } |-> reqs[r]])

RECURSIVE SumBets(_)
SumBets(gs) == IF gs = <<>> THEN 0 ELSE Head(gs).bet * 100 + SumBets(Tail(gs))
RECURSIVE SumPayouts(_)
SumPayouts(gs) ==
    IF gs = <<>> THEN 0
    ELSE (IF Head(gs).status = "cashedOut" THEN Head(gs).bet * Head(gs).multiplier ELSE 0)
         + SumPayouts(Tail(gs))

\* C1: while only cash-out requests are in flight on a game, a game that one
\* request has cashed out stays cashed out, no further request passes the
\* conditional update, and a request rejected with 'Game not active or not
\* yours' changes neither the games nor the credits.
C1_SingleCashout ==
    [][\A g \in GameIds :
          (games[g].status = "cashedOut" /\ ~ClickInFlight(g)) =>
             /\ games'[g].status = "cashedOut"
             /\ CashoutWinners(g)' <= CashoutWinners(g)
             /\ (resp' # resp /\ resp'.error = "Game not active or not yours")
                   => (credits' = credits /\ games' = games)]_vars

\* a second cash-out by the owner has been rejected while the first is still
\* on its way to crediting the winnings
C1_Witness ==
    \E g \in GameIds :
        /\ games[g].status = "cashedOut"
        /\ CashoutWinners(g) = 1
        /\ ~ClickInFlight(g)
        /\ resp = Reply("cashout", 400, "Game not active or not yours", <<g, games[g].wallet>>)

\* C2: once a game is lost or cashed out, its row never changes again.
C2_TerminalImmutable ==
    [][\A g \in GameIds : games[g].status \in Terminal => games'[g] = games[g]]_vars

\* C3: when no request is in flight, the wallet's credits are the initial
\* credits minus the bets of all its games plus bet x multiplier of its
\* cashed-out games.
C3_Conservation ==
    reqs = EmptyBag =>
        credits["alice"] = InitCredits * 100 - SumBets(games) + SumPayouts(games)

\* C13: every /game/start that got past its validation, and every game that
\* exists, has between 1 and 24 mines, all on the board of 25 cells, so at
\* least one cell is safe.
C13_BombCountValid ==
    /\ \A r \in InFlight : r.op = "start" => r.bombs \in 1..(TotalTiles - 1)
    /\ \A g \in GameIds :
          /\ Cardinality(games[g].mine_positions) \in 1..(TotalTiles - 1)
          /\ games[g].mine_positions \subseteq 0..(TotalTiles - 1)

\* a bomb count out of range or not whole was refused, and a game exists
C13_Witness ==
    /\ server = "game"
    /\ games # <<>>
    /\ resp = Reply("start", 400, "Invalid bomb count", "alice")

\* the step is the one in which the suspended request r resumes
Resumes(r) == CopiesIn(r, reqs') < CopiesIn(r, reqs)

\* C14: the debit of a /game/start takes exactly the bet off the wallet's
\* credits, and its insert creates an active game with multiplier 1, no safe
\* click, nothing revealed and exactly bombCount distinct mines in 0..24.
C14_StartEffect ==
    [][\A r \in InFlight :
          /\ (r.op = "start" /\ r.pc = "debit" /\ Resumes(r))
                => credits'[r.wallet] = credits[r.wallet] - r.bet * 100
          /\ (r.op = "start" /\ r.pc = "insert" /\ Resumes(r))
                => /\ Len(games') = Len(games) + 1
                   /\ LET game == games'[Len(games')] IN
                        /\ game.wallet = r.wallet /\ game.bet = r.bet
                        /\ game.status = "active" /\ game.multiplier = 100
                        /\ game.safe_clicks = 0 /\ game.revealed = {}
                        /\ Cardinality(game.mine_positions) = r.bombs
                        /\ game.mine_positions \subseteq 0..(TotalTiles - 1)]_vars

\* the step is the one in which the request r is accepted and suspends
Accepted(r) == CopiesIn(r, reqs') > CopiesIn(r, reqs)

\* C15: a /game/click answered 'Game is not active' changes neither the games
\* nor the credits, and no /game/click goes on to its update from a game it
\* read as lost or cashed out.
C15_InactiveRejected ==
    [][/\ (resp' # resp /\ resp'.op = "click" /\ resp'.error = "Game is not active")
            => (games' = games /\ credits' = credits)
       /\ \A r \in BagToSet(reqs') :
             (r.op = "click" /\ Accepted(r)) => games[r.gameId].status = "active"]_vars

\* a click on a game that is lost or cashed out was refused
C15_Witness ==
    \E g \in GameIds :
        /\ games[g].status \in Terminal
        /\ resp = Reply("click", 400, "Game is not active", g)

\* C16: in a sequential execution, a /game/click answered 'Tile already
\* revealed' changes neither the games nor the credits, no click goes on to
\* its update for a tile of the revealed set, and every game counts each of
\* its revealed safe tiles once in safe_clicks and in its multiplier.
C16_RevealOnce ==
    [][/\ (resp' # resp /\ resp'.op = "click" /\ resp'.error = "Tile already revealed")
            => (games' = games /\ credits' = credits)
       /\ \A r \in BagToSet(reqs') :
             (r.op = "click" /\ Accepted(r))
                => r.update.revealed # games[r.gameId].revealed
       /\ \A g \in 1..Len(games') :
             LET game == games'[g]
                 safe == Cardinality(game.revealed \ game.mine_positions)
             IN  /\ game.safe_clicks = safe
                 /\ game.multiplier =
                       IF safe = 0 THEN 100
                       ELSE Multiplier(safe, Cardinality(game.mine_positions))]_vars

\* a second click on a revealed safe tile was refused
C16_Witness ==
    \E g \in GameIds :
        /\ games[g].safe_clicks >= 1
        /\ games[g].status = "active"
        /\ resp = Reply("click", 400, "Tile already revealed", g)

\* C17: the update of a click on a mine sets the game's status to 'lost' and
\* changes no credits, and no cash-out credits winnings for a game whose
\* status is 'lost'.
C17_MineLoses ==
    [][\A r \in InFlight :
          /\ (r.op = "click" /\ r.pc = "mine" /\ Resumes(r))
                => (games'[r.gameId].status = "lost" /\ credits' = credits)
          /\ (r.op = "cashout" /\ r.pc = "credit" /\ Resumes(r))
                => games[r.gameId].status # "lost"]_vars

\* the product of (25 - i + 1) / (25 - b - i + 1) for i = 1..k, as a reduced fraction
RECURSIVE FairProduct(_, _)
FairProduct(k, b) ==
    IF k = 0 THEN <<1, 1>>
    ELSE LET prev == FairProduct(k - 1, b)
         IN  Rat(prev[1] * (TotalTiles - k + 1), prev[2] * (TotalTiles - b - k + 1))

\* m hundredths is a two-decimal value nearest to num / den hundredths
Nearest(m, num, den) == 2 * Abs(m * den - num) <= den

\* C18: after the k-th safe reveal of a game with b mines the stored
\* multiplier is max(1.01, 0.965 times the product of (25 - i + 1) / (25 - b - i + 1)
\* over i = 1..k, rounded to the nearest hundredth); the product stays below
\* the 1e12 cap.
C18_Multiplier ==
    [][\A r \in InFlight :
          (r.op = "click" /\ r.pc = "safe" /\ Resumes(r)) =>
             LET game == games'[r.gameId]
                 k == game.safe_clicks
                 b == Cardinality(game.mine_positions)
                 P == FairProduct(k, b)
                 num == 193 * P[1]
                 den == 2 * P[2]
             IN  /\ k >= 1
                 /\ (P[1] \div P[2]) \div 1000000 < 1000000
                 /\ IF game.multiplier > 101
                    THEN Nearest(game.multiplier, num, den)
                    ELSE /\ game.multiplier = 101
                         /\ \E v \in 0..101 : Nearest(v, num, den)]_vars

\* the first safe reveal of a game with 5 mines: 1.25 * 0.965 = 1.20625, stored 1.21
C18_Witness ==
    \E g \in GameIds :
        /\ Cardinality(games[g].mine_positions) = 5
        /\ games[g].safe_clicks = 1
        /\ games[g].multiplier = 121
        /\ resp = Reply("click", 200, "safe", g)

\* C19: with a constant rate, the pings of a session credit, up to the last
\* ping, the rate for every whole second since the session began, whatever
\* their cadence.
C19_CadenceIndependent ==
    \A a \in DOMAIN users :
        users[a].coins = ((users[a].last_active_ms - DayMs) \div SecondMs) * users[a].rate

\* the account has no session: its row is missing or not active
Inactive(a) == a \notin DOMAIN users \/ users[a].active = 0
CoinsOf(a) == IF a \in DOMAIN users THEN users[a].coins ELSE 0

\* C20: no request credits coins to an account that is not active; a request
\* that starts a session sets last_active_ms to now and leaves the coins; and
\* while the session lasts last_active_ms never moves back and a request
\* credits at most the rate for the seconds since last_active_ms, so the time
\* before the session started is never paid.
C20_NoInactiveCredit ==
    [][\A a \in DOMAIN users' :
          /\ Inactive(a) => users'[a].coins = CoinsOf(a)
          /\ (Inactive(a) /\ users'[a].active = 1) => users'[a].last_active_ms = now
          /\ ~Inactive(a) =>
                /\ users'[a].last_active_ms >= users[a].last_active_ms
                /\ users[a].last_active_ms <= now
                /\ users'[a].coins - users[a].coins
                      <= ((now - users[a].last_active_ms) \div SecondMs) * users[a].rate]_vars

\* an account that earned coins in an earlier session has just started a new
\* one with a ping
C20_Witness ==
    \E a \in DOMAIN users :
        /\ resp = Reply("ping", 200, "started", a)
        /\ users[a].coins >= 1
        /\ users[a].active = 1
        /\ users[a].last_active_ms = now

\* C21: a /logout of an active account credits the rate for every whole
\* second since last_active_ms and sets active = 0; a /logout of an inactive
\* account changes no balance.
C21_LogoutFlushes ==
    [][\A a \in DOMAIN users :
          (resp' = Reply("logout", 200, "", a) /\ now' = now) =>
             /\ users'[a].active = 0
             /\ users'[a].gems = users[a].gems
             /\ users'[a].kahel_offchain = users[a].kahel_offchain
             /\ users'[a].coins =
                   IF users[a].active = 1
                   THEN users[a].coins
                          + ((now - users[a].last_active_ms) \div SecondMs) * users[a].rate
                   ELSE users[a].coins]_vars

\* a /logout has paid an account for its session
C21_Witness ==
    \E a \in DOMAIN users :
        /\ resp = Reply("logout", 200, "", a)
        /\ users[a].active = 0
        /\ users[a].last_active_ms = now
        /\ users[a].coins >= 1

\* a request is answered with a 4xx in this step
Rejects ==
    /\ resp'.code >= 400 /\ resp'.code <= 499
    /\ now' = now
    /\ reqs' = reqs \/ BagCardinality(reqs') < BagCardinality(reqs)

C23_ZeroShareRecorded ==
    [][\A a \in Accounts :
          (/\ resp'.op = "claim" /\ resp'.key = a /\ now' = now
           /\ SumBurnsByDayAndAccount(Today, a) > 0)
             => \E i \in DOMAIN claims' :
                   claims'[i].account = a /\ claims'[i].day = Today]_vars

\* C24: the debit is stored before the transfer is issued: no cash-out is
\* waiting for or back from the token contract while its amount is still on
\* the account's stored balance, and what the contract has transferred never
\* exceeds what cash-outs have taken off the balance.
C24_DebitBeforeTransfer ==
    \A a \in Accounts :
        /\ chain[a] <= debited[a] * 100
        /\ \A r \in InFlight :
              (r.op = "cashout" /\ r.account = a /\ r.pc \in {"transact", "resolved"})
                 => debited[a] >= r.amount

\* C25: once the requests are answered, an account the token contract has
\* transferred to has a stored claims row carrying a transaction id.
C25_SettlementRecorded ==
    reqs = EmptyBag =>
       \A a \in Accounts :
          chain[a] > 0 =>
             \E i \in DOMAIN claims : claims[i].account = a /\ claims[i].txid # Null

\* C26: when a /redeem is answered 500 because its transfer failed, its
\* amount no longer counts towards the account's total of the day.
C26_FailedNotCounted ==
    [][\A r \in InFlight :
          (r.op = "redeem" /\ Resumes(r) /\ resp'.code = 500 /\ claims[r.claimId].timestamp >= startOfDayMs)
             => SumAmounts(claims', r.account, startOfDayMs)
                  = SumAmounts(claims, r.account, startOfDayMs) - r.amount]_vars

\* C27: when a /cashout that waited for the token contract completes, it
\* takes its amount off the balance as stored at that moment and leaves the
\* other columns of the row as stored: what other requests committed during
\* the wait is still there.
C27_NoStaleWrite ==
    [][\A r \in InFlight :
          (r.op = "cashout" /\ r.pc = "resolved" /\ Resumes(r)) =>
             users'[r.account] =
                [users[r.account] EXCEPT !.kahel_offchain = @ - r.amount]]_vars

\* C28: in every state an account has been credited its share of a day if
\* and only if the rewards_given row of the account and the day exists.
C28_CreditWithRow ==
    \A a \in Accounts, d \in Days :
        (awards[<<a, d>>] # <<>>) <=> (<<a, d>> \in rewards_given)

\* C29: after an account's GET /pool on day t, every day before t on which
\* the account submitted has its rewards_given row.
C29_AllOutstandingDays ==
    [][\A a \in Accounts :
          (resp' = Reply("pool", 200, "", a) /\ now' = now /\ reqs' = reqs) =>
             \A d \in Days :
                (d < Today /\ \E i \in DOMAIN submits :
                                 submits[i].account = a /\ submits[i].day = d)
                   => <<a, d>> \in rewards_given']_vars

\* C30: a /ping of an active account less than one second after its
\* last_active_ms leaves the coins and last_active_ms as they were.
C30_SubSecondTickKeepsTime ==
    [][\A a \in DOMAIN users :
          (/\ resp' = Reply("ping", 200, "", a) /\ now' = now
           /\ users[a].active = 1
           /\ now - users[a].last_active_ms < SecondMs)
             => /\ users'[a].coins = users[a].coins
                /\ users'[a].last_active_ms = users[a].last_active_ms]_vars

\* C31: a /ping of an active account s >= 1 whole seconds after its
\* last_active_ms adds s times the rate to the coins and moves last_active_ms
\* on by s seconds exactly.
C31_TickKeepsRemainder ==
    [][\A a \in DOMAIN users :
          LET s == (now - users[a].last_active_ms) \div SecondMs
          IN  (/\ resp' = Reply("ping", 200, "", a) /\ now' = now
               /\ users[a].active = 1
               /\ s >= 1)
                 => /\ users'[a].coins = users[a].coins + s * users[a].rate
                    /\ users'[a].last_active_ms = users[a].last_active_ms + s * SecondMs]_vars

\* C32: a heartbeat for an account whose last_tick is unset sets last_tick to
\* now and credits no coins.
C32_FirstTick ==
    [][\A a \in Accounts :
          (/\ resp' = Reply("heartbeat", 200, "", a) /\ now' = now
           /\ users[a].last_tick <= 0)
             => /\ users'[a].last_tick = now
                /\ users'[a].coins = users[a].coins]_vars

\* a row that had never been ticked has had its first heartbeat
C32_Witness ==
    \E a \in Accounts :
        /\ resp = Reply("heartbeat", 200, "", a)
        /\ users[a].coins = 0
        /\ users[a].last_tick = now
        /\ now > DayMs

\* C33: in every state of every game safe_clicks is the number of revealed
\* cells that are not mines, and at most the number of safe cells.
C33_SafeClicksCount ==
    \A g \in GameIds :
        /\ games[g].safe_clicks = Cardinality(games[g].revealed \ games[g].mine_positions)
        /\ games[g].safe_clicks <= TotalTiles - Cardinality(games[g].mine_positions)

\* C34: a /claim is refused with already_claimed_today only if /claim has
\* awarded the account a share of the pool that day.
C34_RefusedOnlyIfAwarded ==
    [][\A a \in Accounts :
          (/\ resp' = Reply("claim", 400, "already_claimed_today", a)
           /\ now' = now /\ reqs' = reqs)
             => awards[<<a, Today>>] # <<>>]_vars

\* C35: a /game/click or /game/cashout naming a wallet that does not own the
\* game is answered without any change to the games or the credits, and no
\* such request gets as far as a write: every click and cash-out that goes on
\* names the owner.
C35_OwnerOnly ==
    [][/\ (resp'.op = "click" /\ resp'.code = 403 /\ reqs' = reqs)
            => (games' = games /\ credits' = credits)
       /\ (/\ resp'.op = "cashout" /\ resp'.code = 400 /\ reqs' = reqs
           /\ resp'.key[1] \in GameIds
           /\ games[resp'.key[1]].wallet # resp'.key[2])
            => (games' = games /\ credits' = credits)
       /\ \A r \in BagToSet(reqs') :
             (r.op \in {"click", "cashout"} /\ Accepted(r))
                => r.wallet = games[r.gameId].wallet]_vars

\* a click by a stranger on a game in play was refused
C35_Witness ==
    \E g \in GameIds :
        /\ games[g].status = "active"
        /\ games[g].wallet # "mallory"
        /\ resp = Reply("click", 403, "Not your game", g)

\* C36: only the answer to a click that hit a mine carries mine_positions,
\* and the game whose layout an answer has disclosed is not active afterwards.
C36_LayoutHidden ==
    [][/\ "mine_positions" \in DOMAIN resp'
            => (resp'.op = "click" /\ resp'.error = "mine")
       /\ "mine_positions" \in DOMAIN resp
            => games'[resp.key].status # "active"]_vars

\* C37: a rewards_given row exists only for a day earlier than the current
\* UTC day, and the submits of a day that has such a row never change.
C37_DistributedDayClosed ==
    [][/\ \A key \in rewards_given' : key[2] < Today'
       /\ \A key \in rewards_given :
             SelectDay(submits', key[2]) = SelectDay(submits, key[2])]_vars

\* a contribution was made after an earlier day had been distributed
C37_Witness ==
    /\ rewards_given # {}
    /\ resp.op = "submit" /\ resp.code = 200
    /\ \E i \in DOMAIN submits : submits[i].day = Today

\* C38: a /convert/deposit whose txid is already recorded in pending_deposits
\* adds no credits: the step that writes the credits of such a request leaves
\* credits as they are.
C38_TxidCreditedOnce ==
    [][\A r \in InFlight :
          (/\ r.op = "deposit" /\ r.pc = "credit" /\ Resumes(r)
           /\ \E i \in DOMAIN pending_deposits : pending_deposits[i].txid = r.txid)
          => credits' = credits]_vars

RECURSIVE SettledSum(_, _)
\* the amounts of the account's claims rows that carry a txid
SettledSum(rows, account) ==
    IF rows = <<>> THEN 0
    ELSE (IF Head(rows).account = account /\ Head(rows).txid # Null
          THEN Head(rows).amount ELSE 0) + SettledSum(Tail(rows), account)

\* the rows with a txid are covered by what the contract has transferred
TxidBacked(rows, transferred) ==
    \A a \in Accounts : SettledSum(rows, a) * 100 <= transferred[a]

\* C39: in /cashout and /redeem a claims row is inserted with a null txid; a
\* row gets a txid only in the step in which the request that inserted it
\* resumes from a transfer that went through, so the rows with a txid are
\* always covered by the amounts transferred on chain; a row whose request
\* failed or is still waiting keeps its null txid, and a row that has a txid
\* never changes again.
C39_TxidOnlyAfterTransfer ==
    [][/\ TxidBacked(claims, chain) /\ TxidBacked(claims', chain')
       /\ Len(claims') >= Len(claims)
       /\ \A i \in DOMAIN claims' :
             IF i \notin DOMAIN claims
             THEN claims'[i].txid = Null
             ELSE /\ claims[i].txid # Null => claims'[i] = claims[i]
                  /\ claims'[i].txid # claims[i].txid =>
                        \E r \in InFlight :
                           /\ r.pc = "resolved" /\ r.claimId = i /\ Resumes(r)
                           /\ resp'.code = 200]_vars

\* a transfer went through and its row has the txid, another transfer failed
\* and its row is left without one
C39_Witness ==
    /\ reqs = EmptyBag
    /\ \E i \in DOMAIN claims : claims[i].txid # Null
    /\ \E j \in DOMAIN claims : claims[j].txid = Null

\* C40: a /burn of coins_to_burn answered 200 takes exactly 1,000,000 * k coins
\* off the account and adds exactly k to its kahel_offchain, with
\* k = floor(coins_to_burn / 1,000,000) >= 1, and changes nothing else: no other
\* field of the row, no other row, no other table.
C40_BurnFrame ==
    [][\A a \in Accounts, c \in FaucetBurnInputs \union WideBurnInputs :
          (FaucetBurn(a, c) /\ resp'.code = 200) =>
             LET k == c \div MIN_BURN
             IN  /\ k >= 1
                 /\ a \in DOMAIN users
                 /\ users' = [users EXCEPT ![a] =
                                 [@ EXCEPT !.coins = @ - MIN_BURN * k,
                                           !.kahel_offchain = @ + k]]
                 /\ UNCHANGED <<chain, credits, games, claims, submits, burns,
                                rewards_given, pending_deposits, reqs>>]_vars

\* a burn has just been answered 200 and the account has burnt two units
C40_Witness ==
    /\ resp = Reply("burn", 200, "", "alice")
    /\ users["alice"].coins = (InitCoins - 2) * MIN_BURN
    /\ users["alice"].kahel_offchain = 2

\* C12: a /game/start answered 'Not enough credits' changes neither the games
\* nor the credits, and no /game/start whose bet exceeds the credits it read
\* goes on to the debit.
C12_InsufficientRejected ==
    [][/\ (resp' # resp /\ resp'.op = "start" /\ resp'.error = "Not enough credits")
            => (games' = games /\ credits' = credits)
       /\ \A r \in BagToSet(reqs') :
             (r.op = "start" /\ r.pc = "debit" /\ CopiesIn(r, reqs') > CopiesIn(r, reqs))
                => r.bet * 100 <= credits[r.wallet]]_vars

\* a bet above the wallet's credits was refused while the wallet has a game
C12_Witness ==
    /\ server = "game"
    /\ games # <<>>
    /\ resp = Reply("start", 400, "Not enough credits", "alice")

\* ----------------------------------------------------- settlement: claims
\* what a suspended cash-out or withdrawal has taken off the balance so far
Taken(r) ==
    IF server = "faucet" THEN 0
    ELSE IF server = "convert" THEN r.credits * 100
    ELSE r.amount

\* C4: when a cash-out or withdrawal ends with a failed transfer (HTTP 500),
\* the balance it debited is back at its value before the call: the step
\* that answers gives back exactly what the request had taken.
C4_FailedTransferRestores ==
    [][\A r \in InFlight :
          (reqs' = reqs (-) SetToBag({r}) /\ resp'.code = 500) =>
             IF server = "convert" THEN credits'[r.wallet] = credits[r.wallet] + Taken(r)
             ELSE IF server = "faucet"
                  THEN users'[r.account].kahel_offchain
                          = users[r.account].kahel_offchain + Taken(r)
             ELSE IF server = "miner"
                  THEN users'[r.account].gems = RatAdd(users[r.account].gems, <<Taken(r), 1>>)
             ELSE users'[r.account].kahel_in_game
                     = users[r.account].kahel_in_game + Taken(r)]_vars

\* C5: once every cash-out has completed, what the token contract has
\* transferred to an account (in cents) is at most what its cash-outs took
\* off its kahel_offchain balance.
C5_NoDoubleSpend ==
    reqs = EmptyBag => \A a \in Accounts : chain[a] <= debited[a] * 100

\* ------------------------------------------------------- miner pool: claims
\* C6: whatever the number of distributeGemsForDay runs for a day, an account
\* is credited a share of that day's pool at most once.
C6_AtMostOnce == \A k \in Accounts \X Days : Len(awards[k]) <= 1

\* a day was distributed twice and an account with two submissions that day
\* holds one credit for it
C6_Witness ==
    \E d \in Days, a \in Accounts :
        /\ runs[d] = 2
        /\ Len(SelectAccount(SelectDay(submits, d), a)) >= 2
        /\ Len(awards[<<a, d>>]) = 1

\* C9: an account in rewards_given for a day was credited exactly
\* round(its summed contribution / the day's total x 1000) gems, a whole number.
C9_ExactShares ==
    \A d \in Days, a \in Accounts :
        <<a, d>> \in rewards_given =>
            awards[<<a, d>>] =
                << Rat(Round(SumRows(SelectAccount(SelectDay(submits, d), a)) * POOL_GEMS,
                             SumRows(SelectDay(submits, d))), 1) >>

\* --------------------------------------------------- burn-and-claim: claims
RECURSIVE SumSeq(_)
SumSeq(q) == IF q = <<>> THEN 0 ELSE Head(q) + SumSeq(Tail(q))
\* the cents /claim has awarded for a day, over all accounts
Awarded(day) == SumSeq(awards[<<"alice", day>>]) + SumSeq(awards[<<"bob", day>>])

\* C7: an account is awarded at most once per UTC day: after its successful
\* /claim no award of that day is added, and a /claim it makes that day is
\* answered already_claimed_today and leaves its kahel_in_game as it was.
C7_OneClaimPerDay ==
    [][\A a \in Accounts :
          (awards[<<a, Today>>] # <<>> /\ now' = now) =>
             /\ awards'[<<a, Today>>] = awards[<<a, Today>>]
             /\ (resp' # resp /\ resp'.op = "claim" /\ resp'.key = a) =>
                   /\ resp'.error = "already_claimed_today"
                   /\ users'[a].kahel_in_game = users[a].kahel_in_game]_vars

\* an account that was awarded today has claimed again and was refused
C7_Witness ==
    \E a \in Accounts :
        /\ server = "burn"
        /\ Len(awards[<<a, Today>>]) = 1
        /\ resp = Reply("claim", 400, "already_claimed_today", a)

\* C8: the cents awarded by /claim for a day never exceed the pool of 100.
C8_PoolBound == \A d \in Days : Awarded(d) <= POOL_CENTS

\* ------------------------------------------------------ all servers: claims
\* C10: every stored balance is non-negative in every state.
C10_NonNegative ==
    /\ \A w \in Wallets : credits[w] >= 0
    /\ \A a \in DOMAIN users :
          /\ users[a].coins >= 0
          /\ IF server = "miner" THEN users[a].gems[1] >= 0 ELSE users[a].gems >= 0
          /\ server = "faucet" => users[a].kahel_offchain >= 0
          /\ server = "burn" => users[a].kahel_in_game >= 0

\* after a gems cash-out was transferred, a further one was refused for want
\* of gems
C10_Witness ==
    \E a \in Accounts :
        /\ server = "miner"
        /\ chain[a] > 0
        /\ resp = Reply("cashout", 400, "not_enough_gems", a)

\* ---------------------------------------------------- redeem faucet: claims
RECURSIVE SumOfDay(_, _, _)
\* the amounts of the account's claims rows whose timestamp falls in the day
SumOfDay(rows, account, day) ==
    IF rows = <<>> THEN 0
    ELSE (IF Head(rows).account = account /\ Head(rows).timestamp \div DayMs = day
          THEN Head(rows).amount ELSE 0) + SumOfDay(Tail(rows), account, day)

\* C11: after every step the claims rows of an account for a UTC day sum to
\* at most DAILY_LIMIT, and a request answered 429 inserts no row.
C11_DailyLimit ==
    [][/\ \A a \in Accounts, d \in Days : SumOfDay(claims', a, d) <= DAILY_LIMIT
       /\ (resp' # resp /\ resp'.code = 429) => claims' = claims]_vars

\* an account that has redeemed the whole daily limit was refused with 429
C11_Witness ==
    \E a \in Accounts :
        /\ SumOfDay(claims, a, Today) = DAILY_LIMIT
        /\ resp = Reply("redeem", 429, "Daily limit exceeded", a)

====
